---- MODULE Spec2Model ----
\* Model of stock_chart_generator.py: StockChartGenerator.fetch_stock_data,
\* generate_chart, save_chart and generate.
\*
\* Timestamps are whole hours since an epoch midnight; a calendar date is
\* timestamp \div 24.  Prices are small positive integers.  All fractional
\* quantities of the layout are kept exact as integer numerators over a fixed
\* denominator that is part of the name (label_positions2 = 2 * position,
\* circle_y100 = 100 * circle_y, ...).  numpy's floating-point rounding is not
\* modelled: the spline and linspace are evaluated in exact rational arithmetic.
EXTENDS Integers, Sequences, FiniteSets, TLC

VARIABLES
    pc,                \* position inside generate(), or "render" for direct calls
    ticker,            \* generate()'s ticker argument
    converted_ticker,  \* result of convert_identifier_to_ticker
    data,              \* the DataFrame held by the caller (None before a fetch)
    fig,               \* the figure generate_chart returned last (None before)
    files,             \* the image files written by save_chart, in order
    output_dir,        \* self.output_dir of each generator instance
    history            \* the direct generate_chart invocations made so far

vars == <<pc, ticker, converted_ticker, data, fig, files, output_dir, history>>

\* ------------------------------------------------------------------ bounds
\* Most records a provider response holds in the pipeline specification.
MaxRaw == 3
\* Most points of a series handed to generate_chart in the chart specification.
MaxPoints == 5
\* Most generate_chart invocations recorded in the chart specification.
MaxCalls == 2
\* Most points of a series in the tick specification.
MaxTickPoints == 2

\* Hours (since epoch midnight) at which the provider may report a bar.
Timestamps == {9, 10, 13, 33, 34, 57}
\* Closing prices.
Closes == {1, 2, 3}
\* A missing close (pandas NaN).
NaN == 0
\* Python's None.
None == [none |-> TRUE]

\* ------------------------------------------------------------ small helpers
Range(s) == {s[i] : i \in DOMAIN s}

Min(S) == CHOOSE x \in S : \A y \in S : x <= y

Max(S) == CHOOSE x \in S : \A y \in S : x >= y

\* All sequences over S of length at most n.
SeqsUpTo(S, n) == UNION {[1..k -> S] : k \in 0..n}

\* datetime.date(): the calendar date of a timestamp.
date(ts) == ts \div 24

\* strftime('%d %b'): day and month only, the year is dropped (365-day year).
strftime_d_b(ts) == date(ts) % 365

\* ---------------------------------------------------------- fetch_stock_data
\* hist.dropna(subset=['close'])
dropna(hist) == SelectSeq(hist, LAMBDA r : r.close # NaN)

IsSortedByDate(s) == \A i \in 1..(Len(s) - 1) : s[i].date <= s[i + 1].date

IsPermutation(s, t) ==
    /\ Len(s) = Len(t)
    /\ \E f \in [1..Len(s) -> 1..Len(s)] :
          /\ \A i, j \in 1..Len(s) : i # j => f[i] # f[j]
          /\ \A i \in 1..Len(s) : s[i] = t[f[i]]

\* hist.sort_values('date'): the default sort kind is not stable, so every
\* ordering of the rows that is ascending by date is a possible outcome.
sort_values(hist) ==
    {s \in [1..Len(hist) -> Range(hist)] : IsSortedByDate(s) /\ IsPermutation(s, hist)}

\* A DataFrame: its rows in order and its column names.
DataFrame(rows) == [rows |-> rows, cols |-> {"date", "close"}]

\* The values fetch_stock_data can return for a provider response hist.
fetch_stock_data(hist) ==
    IF Len(hist) = 0 THEN {None}
    ELSE IF Len(dropna(hist)) = 0 THEN {None}
    ELSE {DataFrame(s) : s \in sort_values(dropna(hist))}

\* ------------------------------------------------------------ generate_chart
\* data = data.copy(); data['date_pd'] = ...; data['x_index'] = range(len(data)):
\* the working frame of one invocation, with the two derived columns.
WorkingFrame(df) ==
    [rows |-> [i \in 1..Len(df.rows) |->
                  [date |-> df.rows[i].date, close |-> df.rows[i].close,
                   date_pd |-> df.rows[i].date, x_index |-> i - 1]],
     cols |-> df.cols \cup {"date_pd", "x_index"}]

\* A generate_chart that adds its columns to the caller's frame (no copy).
CallerFrameAfter_NoCopy(df) == WorkingFrame(df)

\* What the caller's frame looks like after the invocation: data.copy() makes
\* the added columns land on the copy, so the caller's frame is as it was.
CallerFrameAfter(df) == df

\* theta[k]: determinant of the k x k tridiagonal matrix with 4 on the diagonal
\* and 1 beside it (the natural-spline system for unit knot spacing).
RECURSIVE theta(_)
theta(k) == IF k <= 0 THEN 1 ELSE IF k = 1 THEN 4 ELSE 4 * theta(k - 1) - theta(k - 2)

\* Second difference of the closes at interior knot j (1 <= j <= n-2), knots 0..n-1.
SecondDiff(closes, j) == closes[j] - 2 * closes[j + 1] + closes[j + 2]

\* Entry (i, j) of the inverse of that m x m matrix, times theta(m).
InverseEntry(m, i, j) ==
    LET lo == IF i <= j THEN i ELSE j
        hi == IF i <= j THEN j ELSE i
        sign == IF (i + j) % 2 = 0 THEN 1 ELSE 0 - 1
    IN  sign * theta(lo - 1) * theta(m - hi)

\* Sum over interior knots j..n-2 of InverseEntry(n-2, i, j) * SecondDiff(j).
RECURSIVE MomentSum(_, _, _)
MomentSum(closes, i, j) ==
    IF j > Len(closes) - 2 THEN 0
    ELSE InverseEntry(Len(closes) - 2, i, j) * SecondDiff(closes, j)
         + MomentSum(closes, i, j + 1)

\* theta(n-2) * M_i / 6, M_i the second derivative of the natural cubic spline
\* at knot i (0 <= i <= n-1): zero at both ends (bc_type='natural'), and inside
\* the solution of M[i-1] + 4 M[i] + M[i+1] = 6 * SecondDiff, by the explicit
\* inverse of the tridiagonal matrix.
SplineMoment(closes, i) ==
    IF i <= 0 \/ i >= Len(closes) - 1 THEN 0 ELSE MomentSum(closes, i, 1)

\* Denominator of the x values of the evaluation grid: np.linspace(first, last,
\* num) has num - 1 steps.
GridDen(num) == num - 1

\* Number of values the spline is evaluated at: len(x_indices) * 5.
GridCount(n) == n * 5

\* np.linspace(x_indices[0], x_indices[-1], num): the k-th value (k = 0..num-1)
\* is k * (n-1) / (num-1); returned as its numerator over GridDen(num).
linspace(n, num, k) == k * (n - 1)

\* cs(x) for x = xn / q: numerator over YDen(n, q).  On knot interval [i, i+1]
\* with t = x - i = p / q the natural spline is
\*   y_i (1-t) + y_{i+1} t + M_i/6 ((1-t)^3 - (1-t)) + M_{i+1}/6 (t^3 - t).
YDen(n, q) == theta(n - 2) * q * q * q

CubicSpline(closes, xn, q) ==
    LET n == Len(closes)
        i0 == xn \div q
        i == IF i0 > n - 2 THEN n - 2 ELSE i0
        p == xn - i * q
        r == q - p
    IN  theta(n - 2) * (closes[i + 1] * r * q * q + closes[i + 2] * p * q * q)
        + SplineMoment(closes, i) * (r * r * r - r * q * q)
        + SplineMoment(closes, i + 1) * (p * p * p - p * q * q)

\* The red price line: ax.plot(x_smooth, y_smooth, ...) for 4 points or more,
\* ax.plot(x_indices, closes, ...) otherwise.  Either call draws one solid line
\* ('-') over all of x_indices and sets no marker.
PriceLine(x_indices, closes) ==
    LET n == Len(x_indices)
        num == GridCount(n)
        q == GridDen(num)
    IN  IF n >= 4
        THEN [kind |-> "spline", linestyle |-> "-", marker |-> "None",
              x_index |-> x_indices, xden |-> q, yden |-> YDen(n, q),
              pts |-> [k \in 1..num |->
                         [x |-> linspace(n, num, k - 1),
                          y |-> CubicSpline(closes, linspace(n, num, k - 1), q)]]]
        ELSE [kind |-> "polyline", linestyle |-> "-", marker |-> "None",
              x_index |-> x_indices, xden |-> 1, yden |-> 1,
              pts |-> [k \in 1..n |-> [x |-> x_indices[k], y |-> closes[k]]]]

\* day_boundaries: x_index of every row whose calendar date differs from the
\* date of the row before it (current_date starts as None, so row 0 always
\* opens a day).
RECURSIVE day_boundaries_from(_, _, _)
day_boundaries_from(rows, k, current_date) ==
    IF k > Len(rows) THEN <<>>
    ELSE IF <<date(rows[k].date_pd)>> # current_date
         THEN <<rows[k].x_index>> \o day_boundaries_from(rows, k + 1, <<date(rows[k].date_pd)>>)
         ELSE day_boundaries_from(rows, k + 1, current_date)

\* A labeler whose current_date starts as the first row's date.
day_boundaries_FirstSkipped(rows) ==
    day_boundaries_from(rows, 1, <<date(rows[1].date_pd)>>)

day_boundaries(rows) == day_boundaries_from(rows, 1, <<>>)

\* day_labels: strftime('%d %b') of the row that opens each day.
day_labels(rows) ==
    LET b == day_boundaries(rows)
    IN  [i \in 1..Len(b) |-> strftime_d_b(rows[b[i] + 1].date_pd)]

\* label_positions, doubled: the midpoint between a boundary and the next one,
\* or between the last boundary and the last index.
label_positions2(rows) ==
    LET b == day_boundaries(rows)
    IN  [i \in 1..Len(b) |->
            IF i < Len(b) THEN b[i] + b[i + 1] ELSE b[i] + Len(rows) - 1]

\* The tick labels set on the x axis: ax.set_xticks(label_positions) and
\* ax.set_xticklabels(day_labels) keep every boundary's label.
xticks(rows) ==
    [i \in 1..Len(day_boundaries(rows)) |->
        [pos2 |-> label_positions2(rows)[i], text |-> day_labels(rows)[i]]]

\* A reference taken from any earlier timestamp, the same day included.
prev_day_close_SameDayCounts(rows) ==
    IF Len(rows) > 1
    THEN LET last == rows[Len(rows)].date_pd
             prev_day_data == SelectSeq(rows, LAMBDA r : r.date_pd < last)
         IN  IF Len(prev_day_data) > 0
             THEN <<prev_day_data[Len(prev_day_data)].close>>
             ELSE <<>>
    ELSE <<>>

\* prev_day_close: close of the last row dated before the final row's date, as
\* <<close>>; <<>> (Python's None) for a single row or when no row is dated
\* earlier.
prev_day_close(rows) ==
    IF Len(rows) > 1
    THEN LET last_date == date(rows[Len(rows)].date_pd)
             prev_day_data == SelectSeq(rows, LAMBDA r : date(r.date_pd) < last_date)
         IN  IF Len(prev_day_data) > 0
             THEN <<prev_day_data[Len(prev_day_data)].close>>
             ELSE <<>>
    ELSE <<>>

\* A comparison that counts an unchanged price as down.
price_increased_Strict(current_price, prev) == current_price > prev

\* price_increased = current_price >= prev_day_close
price_increased(current_price, prev) == current_price >= prev

\* The three ax.text calls of the badge, each at circle_y + dy * 0.35 * radius:
\* dy = 1 is the upper line, 0 the centre, -1 the lower line.
BadgeTexts(increased) ==
    IF increased
    THEN {[text |-> "arrow_up", dy |-> 1], [text |-> "price", dy |-> 0],
          [text |-> "date", dy |-> 0 - 1]}
    ELSE {[text |-> "date", dy |-> 1], [text |-> "price", dy |-> 0],
          [text |-> "arrow_down", dy |-> 0 - 1]}

\* circle_color
circle_color(increased) == IF increased THEN "#00CC00" ELSE "#FF8C00"

\* A placement that goes above the final close when both sides are equal.
circle_y100_TieAbove(closes) ==
    LET y_min == Min(Range(closes))
        y_max == Max(Range(closes))
        y_range == y_max - y_min
        y_at_right == closes[Len(closes)]
        space_above10 == 10 * y_max + y_range - 10 * y_at_right
        space_below10 == 10 * y_at_right - (10 * y_min - y_range)
    IN  IF space_above10 >= space_below10
        THEN 100 * y_at_right + 5 * space_above10
        ELSE 100 * y_at_right - 5 * space_below10

\* 100 * circle_y: half-way into the larger of the free spaces above and
\* below the final close within the padded y range; below on a tie.
circle_y100(closes) ==
    LET y_min == Min(Range(closes))
        y_max == Max(Range(closes))
        y_range == y_max - y_min
        y_at_right == closes[Len(closes)]
        space_above10 == 10 * y_max + y_range - 10 * y_at_right
        space_below10 == 10 * y_at_right - (10 * y_min - y_range)
    IN  IF space_above10 > space_below10
        THEN 100 * y_at_right + 5 * space_above10
        ELSE 100 * y_at_right - 5 * space_below10

\* The price indicator circle and its text, or None without a previous day.
Badge(rows) ==
    LET closes == [i \in 1..Len(rows) |-> rows[i].close]
        current_price == closes[Len(closes)]
        prev == prev_day_close(rows)
        y_range == Max(Range(closes)) - Min(Range(closes))
    IN  IF prev = <<>> THEN None
        ELSE [increased |-> price_increased(current_price, prev[1]),
              reference |-> prev[1],
              color |-> circle_color(price_increased(current_price, prev[1])),
              circle_x |-> Len(rows) - 15,
              circle_y100 |-> circle_y100(closes),
              circle_radius_y100 |-> 8 * y_range,
              price |-> current_price,
              date_text |-> strftime_d_b(rows[Len(rows)].date_pd),
              texts |-> BadgeTexts(price_increased(current_price, prev[1]))]

\* The y view limits after ax.set_ylim(y_min - y_range * 0.1, y_max + y_range
\* * 0.1), times 1000.  Identical limits (y_range = 0) are expanded by
\* matplotlib by 5% of their magnitude on each side.
yview1000(closes) ==
    LET y_min == Min(Range(closes))
        y_max == Max(Range(closes))
        y_range == y_max - y_min
    IN  IF y_range = 0
        THEN <<950 * y_min, 1050 * y_max>>
        ELSE <<1000 * y_min - 100 * y_range, 1000 * y_max + 100 * y_range>>

\* Number of bins of the y axis' automatic tick locator: the axis height in
\* points (figure height 44.45 mm, default axes fraction 0.77) over twice the
\* tick label size (10 pt), rounded down.
y_nbins == 4

\* 10 ** floor(log10(dv / nbins)), times 1000: the largest power of ten p
\* with p * nbins <= dv (dv given times 1000).
RECURSIVE scale_range(_, _)
scale_range(dv, p) ==
    IF 10 * p * y_nbins <= dv THEN scale_range(dv, 10 * p) ELSE p

\* The locator's step: the smallest of scale * (1, 2, 2.5, 5, 10) that is at
\* least dv / nbins.  That step is at most dv / 2, so at least two ticks fall
\* inside the view and the locator does not fall back to a smaller one.
tick_step(dv) ==
    LET p == scale_range(dv, 1)
        steps == {p, 2 * p, (5 * p) \div 2, 5 * p, 10 * p}
    IN  Min({st \in steps : st * y_nbins >= dv})

\* ax.get_yticks(): the multiples of the step from the last one at or below
\* the view's lower limit to the first one at or above its upper limit.
get_yticks(closes) ==
    LET vmin == yview1000(closes)[1]
        vmax == yview1000(closes)[2]
        step == tick_step(vmax - vmin)
        best_vmin == (vmin \div step) * step
        high == ((vmax - best_vmin) + step - 1) \div step
    IN  [k \in 1..(high + 1) |-> best_vmin + (k - 1) * step]

\* The y tick labels, lines 193-198: every label whose tick lies above
\* y_min + y_range * 0.85 is made invisible.
yticklabels(closes) ==
    LET y_min == Min(Range(closes))
        y_range == Max(Range(closes)) - y_min
        yticks == get_yticks(closes)
    IN  [k \in DOMAIN yticks |->
            [tick1000 |-> yticks[k],
             visible |-> ~(yticks[k] > 1000 * y_min + 850 * y_range)]]

\* generate_chart(data, ticker): the layout geometry of the returned figure;
\* lines holds one entry per ax.plot call (ax.lines).
generate_chart(df, tk) ==
    LET rows == WorkingFrame(df).rows
        closes == [i \in 1..Len(rows) |-> rows[i].close]
        y_min == Min(Range(closes))
        y_max == Max(Range(closes))
    IN  [title |-> tk,
         x_index |-> [i \in 1..Len(rows) |-> rows[i].x_index],
         lines |-> <<PriceLine([i \in 1..Len(rows) |-> rows[i].x_index], closes)>>,
         xticks |-> xticks(rows),
         ylim10 |-> <<10 * y_min - (y_max - y_min), 10 * y_max + (y_max - y_min)>>,
         yview1000 |-> yview1000(closes),
         yticklabels |-> yticklabels(closes),
         xlim |-> <<0 - 1, Len(rows)>>,
         badge |-> Badge(rows)]

\* ------------------------------------------------------------ state machine
Generators == {"g1", "g2"}

\* Records a provider may return in the pipeline specification: a timestamp
\* (two on one day, one on the next), a close or a missing close.
RawRecords == [date : {9, 10, 33}, close : {1, 2, NaN}]

\* Provider responses of the pipeline specification: any order, any subset
\* with a missing close, repeated timestamps allowed.
Responses == SeqsUpTo(RawRecords, MaxRaw)

\* StockChartGenerator.__init__: output_dir is set once per instance.
InitGenerators == [g \in Generators |-> IF g = "g1" THEN "graphs" ELSE "charts"]

Init ==
    /\ pc = "fetch"
    /\ ticker = "TSLA"
    /\ converted_ticker = ""
    /\ data = None
    /\ fig = None
    /\ files = <<>>
    /\ output_dir = InitGenerators
    /\ history = <<>>

\* generate(), lines 348-350: data = self.fetch_stock_data(ticker) on a
\* provider response, and the test "data is None or len(data) == 0".
Fetch ==
    /\ pc = "fetch"
    /\ \E hist \in Responses : \E d \in fetch_stock_data(hist) :
          /\ data' = d
          /\ pc' = IF d = None \/ Len(d.rows) = 0 THEN "prompt" ELSE "chart"
    /\ UNCHANGED <<ticker, converted_ticker, fig, files, output_dir, history>>

\* fetch_stock_data, lines 61-62: any exception of the provider gives None.
FetchException ==
    /\ pc = "fetch"
    /\ data' = None
    /\ pc' = "prompt"
    /\ UNCHANGED <<ticker, converted_ticker, fig, files, output_dir, history>>

\* convert_identifier_to_ticker(id_type, identifier)
convert_identifier_to_ticker(id_type, identifier) ==
    IF id_type = "TICKER" THEN identifier ELSE ""

\* generate(), lines 353-362 up to the second fetch: the prompt (an invalid
\* option raises ValueError), the conversion, and the ValueError raised when
\* no ticker came out of it ("" stands for None and the empty string, both falsy).
PromptAlternative ==
    /\ pc = "prompt"
    /\ \E choice \in {"1", "2", "3", "other"}, identifier \in {"", "MSFT"} :
          IF choice = "other"
          THEN /\ pc' = "error"
               /\ UNCHANGED converted_ticker
          ELSE LET id_type == IF choice = "1" THEN "ISIN"
                              ELSE IF choice = "2" THEN "WKN" ELSE "TICKER"
                   conv == convert_identifier_to_ticker(id_type, identifier)
               IN  /\ converted_ticker' = conv
                   /\ pc' = IF conv # "" THEN "refetch" ELSE "error"
    /\ UNCHANGED <<ticker, data, fig, files, output_dir, history>>

\* generate(), lines 357-362: the single retry with the converted ticker.
Refetch ==
    /\ pc = "refetch"
    /\ \E d \in {None} \cup UNION {fetch_stock_data(hist) : hist \in Responses} :
          /\ data' = d
          /\ ticker' = IF d # None /\ Len(d.rows) > 0 THEN converted_ticker ELSE ticker
          /\ pc' = IF d = None \/ Len(d.rows) = 0 THEN "error" ELSE "chart"
    /\ UNCHANGED <<converted_ticker, fig, files, output_dir, history>>

\* generate(), lines 364-372: fig = self.generate_chart(data, ticker).
GenerateChart ==
    /\ pc = "chart"
    /\ fig' = generate_chart(data, ticker)
    /\ data' = CallerFrameAfter(data)
    /\ pc' = "save"
    /\ UNCHANGED <<ticker, converted_ticker, files, output_dir, history>>

\* A generate() that swallowed the exception and went on to save.
GenerateChartRaises_Swallowed ==
    /\ pc = "chart"
    /\ pc' = "save"
    /\ UNCHANGED <<ticker, converted_ticker, data, fig, files, output_dir, history>>

\* generate(), lines 364-372: an exception raised while counting the days or
\* inside generate_chart propagates out of generate.
GenerateChartRaises ==
    /\ pc = "chart"
    /\ pc' = "error"
    /\ UNCHANGED <<ticker, converted_ticker, data, fig, files, output_dir, history>>

\* save_chart(figure, ticker): the file written into self.output_dir.
save_chart(dir, tk) == [dir |-> dir, name |-> tk]

\* generate(), lines 373-377: filepath = self.save_chart(fig, ticker); return.
SaveChart ==
    /\ pc = "save"
    /\ files' = Append(files, save_chart(output_dir["g1"], ticker))
    /\ pc' = "done"
    /\ UNCHANGED <<ticker, converted_ticker, data, fig, output_dir, history>>

Next ==
    \/ Fetch
    \/ FetchException
    \/ PromptAlternative
    \/ Refetch
    \/ GenerateChart
    \/ GenerateChartRaises
    \/ SaveChart

Spec == Init /\ [][Next]_vars

\* ------------------------------------------- direct calls of generate_chart
\* Series as fetch_stock_data returns them, of at most n points: no missing
\* close, ascending dates (here: strictly ascending timestamps).
RECURSIVE AscendingSeqs(_)
AscendingSeqs(n) ==
    IF n = 0 THEN {<<>>}
    ELSE LET shorter == AscendingSeqs(n - 1)
         IN  shorter \cup
             {Append(s, r) : <<s, r>> \in
                 {sr \in {t \in shorter : Len(t) = n - 1}
                            \X [date : Timestamps, close : Closes] :
                     Len(sr[1]) = 0 \/ sr[1][Len(sr[1])].date < sr[2].date}}

NormalizedSeries == AscendingSeqs(MaxPoints) \ {<<>>}

InitChart ==
    /\ pc = "render"
    /\ ticker = "TSLA"
    /\ converted_ticker = ""
    /\ data \in {DataFrame(s) : s \in NormalizedSeries}
    /\ fig = None
    /\ files = <<>>
    /\ output_dir = InitGenerators
    /\ history = <<>>

\* generator g's generate_chart(data, ticker), called directly by a caller
\* that keeps its frame and calls again.
Render(g) ==
    /\ pc = "render"
    /\ Len(history) < MaxCalls
    /\ fig' = generate_chart(data, ticker)
    /\ data' = CallerFrameAfter(data)
    /\ history' = Append(history, [gen |-> g, input |-> data, fig |-> fig'])
    /\ UNCHANGED <<pc, ticker, converted_ticker, files, output_dir>>

NextChart == \E g \in Generators : Render(g)

SpecChart == InitChart /\ [][NextChart]_vars

\* ------------------------------ direct calls on series with a wider price range
\* Closing prices of the tick specification.
TickCloses == {1, 4, 11}

TickSeries ==
    {s \in SeqsUpTo([date : Timestamps, close : TickCloses], MaxTickPoints) :
        /\ Len(s) > 0
        /\ \A i \in 1..(Len(s) - 1) : s[i].date < s[i + 1].date}

InitTicks ==
    /\ pc = "render"
    /\ ticker = "TSLA"
    /\ converted_ticker = ""
    /\ data \in {DataFrame(s) : s \in TickSeries}
    /\ fig = None
    /\ files = <<>>
    /\ output_dir = InitGenerators
    /\ history = <<>>

SpecTicks == InitTicks /\ [][NextChart]_vars

\* ------------------------------------------------------------------ claims
\* C1: in a run of generate, save_chart is called at most once, only with a
\* non-empty cleaned series fetched and a figure returned by generate_chart;
\* a run without data (also after the one retry) or with a raising stage ends
\* in an error and writes no image.
C1_SaveOnceAfterChart ==
    /\ Len(files) <= 1
    /\ Len(files) = 1 => pc = "done"
    /\ pc \in {"save", "done"} => fig # None
    /\ pc \in {"chart", "save", "done"} => data # None /\ Len(data.rows) > 0
    /\ pc = "error" => files = <<>>

\* A run that failed the first fetch, retried with the alternative ticker and
\* saved its chart.
C1_Witness == pc = "done" /\ Len(files) = 1 /\ ticker = "MSFT" /\ fig # None

\* C2: the series generate_chart plots has no missing close, strictly
\* increasing (hence unique) timestamps in index order, and indices 0..n-1 in
\* ascending timestamp order.
C2_SeriesStrictlyIncreasing ==
    fig # None =>
        LET rows == data.rows
            n == Len(rows)
        IN  /\ \A i \in 1..n : rows[i].close # NaN
            /\ \A i \in 1..(n - 1) : rows[i].date < rows[i + 1].date
            /\ fig.x_index = [i \in 1..n |-> i - 1]

\* Configuration the specification names and the code does not have: the gap
\* (in hours) above which GapSegmenter starts a new segment, and the least
\* distance (in index units) DayBoundaryLabeler keeps between two labels.
gap_threshold == 2

min_label_distance == 2

\* The drawn piece (index into fig.lines) that covers series index x.
PieceOf(f, x) == CHOOSE k \in DOMAIN f.lines : x \in Range(f.lines[k].x_index)

RECURSIVE Concat(_)
Concat(ss) == IF Len(ss) = 0 THEN <<>> ELSE Head(ss) \o Concat(Tail(ss))

\* C3: the drawn curve pieces partition the series in order with no empty
\* piece, and two consecutive points are in the same piece exactly when their
\* time delta does not exceed gap_threshold.
C3_SegmentsSplitAtGaps ==
    fig # None =>
        LET rows == data.rows
            n == Len(rows)
        IN  /\ Concat([k \in DOMAIN fig.lines |-> fig.lines[k].x_index]) = fig.x_index
            /\ \A k \in DOMAIN fig.lines : Len(fig.lines[k].x_index) > 0
            /\ \A i \in 1..(n - 1) :
                  (PieceOf(fig, i - 1) = PieceOf(fig, i))
                      <=> (rows[i + 1].date - rows[i].date <= gap_threshold)

\* C4: a rendered spline contains, for every original index of its run, a
\* sample with x equal to the index and y equal to the close at that index.
C4_CurveHitsEveryPoint ==
    fig # None =>
        \A l \in Range(fig.lines) :
            l.kind = "spline" =>
                \A k \in DOMAIN l.x_index :
                    \E j \in DOMAIN l.pts :
                        /\ l.pts[j].x = l.x_index[k] * l.xden
                        /\ l.pts[j].y = data.rows[l.x_index[k] + 1].close * l.yden

\* C5: the day labels on the x axis are never empty, the last one is the label
\* of the final calendar day, and a series over k calendar days in ascending
\* order carries exactly k labels, one per day.
C5_DayLabels ==
    fig # None =>
        LET rows == data.rows
            n == Len(rows)
            days == {date(rows[i].date) : i \in 1..n}
            texts == {fig.xticks[i].text : i \in DOMAIN fig.xticks}
        IN  /\ Len(fig.xticks) >= 1
            /\ fig.xticks[Len(fig.xticks)].text = strftime_d_b(rows[n].date)
            /\ Len(fig.xticks) = Cardinality(days)
            /\ texts = {strftime_d_b(rows[i].date) : i \in 1..n}

\* A five-point series over three calendar days, rendered with three labels.
C5_Witness == fig # None /\ Len(data.rows) = 5 /\ Len(fig.xticks) = 3

\* The text the badge shows on the line with vertical offset dy.
TextAt(b, dy) == {t.text : t \in {u \in b.texts : u.dy = dy}}

\* C6: a badge whose current close is at least the reference is up: up colour,
\* lines arrow (top), price, date (bottom); otherwise it is down: the other
\* colour, lines date (top), price, arrow (bottom); equality counts as up.
C6_BadgeDirection ==
    fig # None /\ fig.badge # None =>
        LET b == fig.badge
            current_close == data.rows[Len(data.rows)].close
        IN  /\ Cardinality(b.texts) = 3
            /\ IF current_close >= b.reference
               THEN /\ b.increased
                    /\ b.color = "#00CC00"
                    /\ TextAt(b, 1) = {"arrow_up"}
                    /\ TextAt(b, 0) = {"price"}
                    /\ TextAt(b, 0 - 1) = {"date"}
               ELSE /\ ~b.increased
                    /\ b.color = "#FF8C00"
                    /\ TextAt(b, 1) = {"date"}
                    /\ TextAt(b, 0) = {"price"}
                    /\ TextAt(b, 0 - 1) = {"arrow_down"}

\* A badge for a final close equal to the reference price.
C6_Witness ==
    fig # None /\ fig.badge # None /\ fig.badge.price = fig.badge.reference

\* C7: the reference price is the close of the last point dated strictly
\* before the final point's date; there is a badge exactly when such a point
\* exists, so a single-day series has none.
C7_ReferencePrice ==
    fig # None =>
        LET rows == data.rows
            n == Len(rows)
            earlier == {i \in 1..n : date(rows[i].date) < date(rows[n].date)}
        IN  /\ (fig.badge # None) <=> (earlier # {})
            /\ earlier # {} => fig.badge.reference = rows[Max(earlier)].close

\* A two-day series whose reference is its second point, not its first.
C7_Witness ==
    /\ fig # None
    /\ fig.badge # None
    /\ Len(data.rows) >= 4
    /\ date(data.rows[3].date) = date(data.rows[Len(data.rows)].date)
    /\ fig.badge.reference = data.rows[2].close
    /\ data.rows[1].close # data.rows[2].close

C9_LabelsAtLeastMinDistance ==
    fig # None =>
        \A i \in 2..(Len(fig.xticks) - 1) :
            fig.xticks[i].pos2 - fig.xticks[i - 1].pos2 >= 2 * min_label_distance

\* C10: a run of 4 or more points is drawn as a spline, a run of 2 or 3 points
\* as the polyline through exactly its points, a single point as a marker.
C10_FormByPointCount ==
    fig # None =>
        \A l \in Range(fig.lines) :
            LET n == Len(l.x_index)
            IN  /\ n >= 4 => l.kind = "spline"
                /\ n \in {2, 3} =>
                      /\ l.kind = "polyline"
                      /\ l.pts = [k \in 1..n |->
                                    [x |-> l.x_index[k],
                                     y |-> data.rows[l.x_index[k] + 1].close]]
                /\ n = 1 => l.marker # "None"

\* C11: a spline over a run of n >= 4 points is evaluated at exactly
\* 5 * (n - 1) + 1 values, uniformly spaced from the run's first index to its
\* last index inclusive.
C11_GridCount ==
    fig # None =>
        \A l \in Range(fig.lines) :
            l.kind = "spline" =>
                LET n == Len(l.x_index)
                    num == Len(l.pts)
                IN  /\ num = 5 * (n - 1) + 1
                    /\ l.pts[1].x = l.x_index[1] * l.xden
                    /\ l.pts[num].x = l.x_index[n] * l.xden
                    /\ \A k \in 2..(num - 1) :
                          l.pts[k + 1].x - l.pts[k].x = l.pts[k].x - l.pts[k - 1].x

\* C12: the y range is the closes padded by 10% of their range on both sides;
\* the badge centre is half-way into the larger of the free spaces above and
\* below the final point, below when they are equal; with a positive range
\* the badge (centre +/- 8% of the range) lies inside the padded range and
\* strictly off the final point.
C12_BadgePlacement ==
    fig # None /\ fig.badge # None =>
        LET closes == [i \in 1..Len(data.rows) |-> data.rows[i].close]
            y == closes[Len(closes)]
            y_range == Max(Range(closes)) - Min(Range(closes))
            lo10 == fig.ylim10[1]
            hi10 == fig.ylim10[2]
            above10 == hi10 - 10 * y
            below10 == 10 * y - lo10
            c == fig.badge.circle_y100
            rad == fig.badge.circle_radius_y100
        IN  /\ lo10 = 10 * Min(Range(closes)) - y_range
            /\ hi10 = 10 * Max(Range(closes)) + y_range
            /\ rad = 8 * y_range
            /\ above10 > below10 => c = 100 * y + 5 * above10
            /\ above10 <= below10 => c = 100 * y - 5 * below10
            /\ y_range > 0 =>
                  /\ 10 * lo10 <= c - rad
                  /\ c + rad <= 10 * hi10
                  /\ c - rad > 100 * y \/ c + rad < 100 * y

\* A badge for a final close exactly in the middle of a positive range: equal
\* space on both sides, placed below.
C12_Witness ==
    /\ fig # None
    /\ fig.badge # None
    /\ fig.ylim10[2] - 10 * fig.badge.price = 10 * fig.badge.price - fig.ylim10[1]
    /\ fig.badge.circle_radius_y100 > 0
    /\ fig.badge.circle_y100 < 100 * fig.badge.price

\* C14: the badge centre's x coordinate lies inside the visible x range of
\* the plot.
C14_BadgeInsideXRange ==
    fig # None /\ fig.badge # None =>
        /\ fig.xlim[1] <= fig.badge.circle_x
        /\ fig.badge.circle_x <= fig.xlim[2]

\* C13: with a positive price range, a y tick label inside the view is hidden
\* exactly when it is the topmost tick and its value lies in the top 15% of
\* the visible (padded) y range; every other label stays visible.
C13_TopTickSuppressed ==
    fig # None /\ fig.ylim10[2] > fig.ylim10[1] =>
        LET vmin == fig.yview1000[1]
            vmax == fig.yview1000[2]
            inview == {k \in DOMAIN fig.yticklabels :
                          /\ fig.yticklabels[k].tick1000 >= vmin
                          /\ fig.yticklabels[k].tick1000 <= vmax}
            topmost == Max({fig.yticklabels[k].tick1000 : k \in inview})
        IN  \A k \in inview :
                (~fig.yticklabels[k].visible) <=>
                    /\ fig.yticklabels[k].tick1000 = topmost
                    /\ 100 * fig.yticklabels[k].tick1000 > 100 * vmax - 15 * (vmax - vmin)

====
